---- MODULE Spec2Model ----
(***************************************************************************)
(* A model of task_train.py: the train -> validate -> save loop of one     *)
(* process at a time, the checkpoint directory it writes, and the restart  *)
(* of the process from that directory.                                     *)
(*                                                                         *)
(* File names are sequences of one-character strings, so that sorting them *)
(* is the lexicographic sort of the code and not a sort by step.           *)
(***************************************************************************)
EXTENDS Integers, Sequences, FiniteSets, TLC

VARIABLES
    fresh,      \* the experiment yaml the user wrote (never rewritten)
    dirExists,  \* whether experiment['checkpoint']['path'] is a directory
    disk,       \* the files of the checkpoint directory: name -> content
    replicas,   \* len(gpus), the number of replicas of the strategy
    pc,         \* the position of the process ("stopped": no process)
    argv,       \* sys.argv[1] of the running process
    located,    \* what find_latest_checkpoint returned to __main__
    context,    \* the session context of the running process
    local,      \* the local variables of save (step, models still to write)
    obs,        \* what the running process has done (observation only)
    launches,   \* how many processes have been started
    loops,      \* how many loop iterations all processes have started
    grad,       \* inputs and result of one call of train_one_step
    gs,         \* inputs and result of one call of global_step
    rs,         \* inputs and result of one call of resolve_strings
    bm          \* inputs and result of one call of build_models

vars == <<fresh, dirExists, disk, replicas, pc, argv, located, context, local,
          obs, launches, loops, grad, gs, rs, bm>>

----------------------------------------------------------------------------
(* Bounds of the model.                                                    *)

MaxLoops == 4
MaxLaunches == 2
MaxCycle == 2
MaxReplicas == 2
MaxElements == 2
MaxLoss == 2
MaxCount == 7
MaxStep == 11
MaxGenerations == 2

----------------------------------------------------------------------------
(* Characters, strings and paths.                                          *)

\* ord() of the characters that file names are made of.
Ord(c) ==
    CASE c = "." -> 46 [] c = "/" -> 47
      [] c = "0" -> 48 [] c = "1" -> 49 [] c = "2" -> 50 [] c = "3" -> 51
      [] c = "4" -> 52 [] c = "5" -> 53 [] c = "6" -> 54 [] c = "7" -> 55
      [] c = "8" -> 56 [] c = "9" -> 57
      [] c = "_" -> 95
      [] c = "a" -> 97 [] c = "c" -> 99 [] c = "d" -> 100 [] c = "e" -> 101
      [] c = "g" -> 103 [] c = "h" -> 104 [] c = "i" -> 105 [] c = "k" -> 107
      [] c = "l" -> 108 [] c = "m" -> 109 [] c = "n" -> 110 [] c = "o" -> 111
      [] c = "p" -> 112 [] c = "t" -> 116 [] c = "x" -> 120 [] c = "y" -> 121

Digit(d) == CASE d = 0 -> "0" [] d = 1 -> "1" [] d = 2 -> "2" [] d = 3 -> "3"
              [] d = 4 -> "4" [] d = 5 -> "5" [] d = 6 -> "6" [] d = 7 -> "7"
              [] d = 8 -> "8" [] d = 9 -> "9"

\* str(n) for n >= 0.
RECURSIVE Str(_)
Str(n) == IF n < 10 THEN <<Digit(n)>> ELSE Str(n \div 10) \o <<Digit(n % 10)>>

\* rjust that pads nothing.
RJustNone(s, width, fill) == s

\* s.rjust(width, fill): pads on the left, and only a string that is shorter.
RECURSIVE RJust(_, _, _)
RJust(s, width, fill) ==
    IF Len(s) >= width THEN s ELSE RJust(<<fill>> \o s, width, fill)

\* s.endswith(suffix)
EndsWith(s, suffix) ==
    /\ Len(s) >= Len(suffix)
    /\ SubSeq(s, Len(s) - Len(suffix) + 1, Len(s)) = suffix

\* s < t for two strings, as Python compares them.
RECURSIVE StrLess(_, _)
StrLess(s, t) ==
    IF t = <<>> THEN FALSE
    ELSE IF s = <<>> THEN TRUE
    ELSE IF Head(s) = Head(t) THEN StrLess(Tail(s), Tail(t))
    ELSE Ord(Head(s)) < Ord(Head(t))

\* sorted(names)
RECURSIVE Sorted(_)
Sorted(names) ==
    IF names = {} THEN <<>>
    ELSE LET least == CHOOSE n \in names :
                          \A m \in names \ {n} : StrLess(n, m)
         IN  <<least>> \o Sorted(names \ {least})

\* os.path.join(path, name)
Join(path, name) == path \o <<"/">> \o name

Width == 16
DescriptorSuffix == <<"_", "c", "h", "e", "c", "k", "p", "o", "i", "n", "t",
                      ".", "y", "a", "m", "l">>
WeightSuffix == <<".", "h", "5">>

FreshPath == <<"e", ".", "y", "a", "m", "l">>
CkptDir == <<"c", "k", "p", "t">>
Unrelated == <<"n", "o", "t", "e", ".", "t", "x", "t">>
NoPath == <<>>

\* f'{str(step).rjust(16, "0")}_{model_name}.h5'
WeightName(step, model_name) ==
    RJust(Str(step), Width, "0") \o <<"_">> \o model_name \o WeightSuffix

\* f'{str(step).rjust(16, "0")}_checkpoint.yaml'
DescriptorName(step) == RJust(Str(step), Width, "0") \o DescriptorSuffix

----------------------------------------------------------------------------
(* The experiment descriptor.                                              *)

G == <<"g">>
D == <<"d">>
Models == {G, D}            \* models_config['principals'] and the extensions
ModelOrder == <<G, D>>      \* the order of models_config['principals'].items()
Datasets == {"A", "B"}

\* The value of experiment['global_step'] when the yaml has no such key.
Absent == -1

OptimizerConfigs(name, extensions) ==
    [name : {name}, cycle : 1..MaxCycle, extension_model : extensions,
     dataset : {"A"}]

ValidatorConfigs ==
    [name : {"v1"}, cycle : 1..MaxCycle, principal_model : {G},
     dataset : {"B"}]

\* experiment['name'], and the value of a key the yaml lacks or leaves empty.
ExperimentName == <<"x">>
Missing == <<>>

\* The experiment yamls a user starts from: no global_step, no weights.
FreshExperiments ==
    [name : {ExperimentName},
     summary : {[path |-> <<"l", "o", "g">>]},
     checkpoint : {[path |-> CkptDir]},
     global_step : {Absent},
     checkpoint_cycle : 1..MaxCycle,
     principals : {[m \in Models |-> NoPath]},
     optimizers : {<<a>> : a \in OptimizerConfigs("o1", {G})}
                  \cup {<<a, b>> : a \in OptimizerConfigs("o1", {G}),
                                   b \in OptimizerConfigs("o2", Models)},
     validators : {<<v>> : v \in ValidatorConfigs}]

NoExperiment ==
    [name |-> ExperimentName,
     summary |-> [path |-> <<"l", "o", "g">>],
     checkpoint |-> [path |-> CkptDir],
     global_step |-> Absent, checkpoint_cycle |-> 1,
     principals |-> [m \in Models |-> NoPath],
     optimizers |-> <<>>, validators |-> <<>>]

----------------------------------------------------------------------------
(* The file system.                                                        *)

\* The content of a file of the checkpoint directory. complete is FALSE from
\* the moment the file is opened for writing until its content is written.
\* weights is the number of optimizer updates the saved weights went through.
WeightFile(complete, weights) ==
    [complete |-> complete, weights |-> weights, experiment |-> NoExperiment]
DescriptorFile(complete, experiment) ==
    [complete |-> complete, weights |-> 0, experiment |-> experiment]
OtherFile == WeightFile(TRUE, 0)

\* os.path.isdir(path)
IsDir(path) == dirExists /\ path = CkptDir

\* os.listdir(path) of the checkpoint directory
ListDir(path) == DOMAIN disk

\* os.path.isfile(path)
IsFile(path) ==
    \/ path = FreshPath
    \/ dirExists /\ \E n \in DOMAIN disk : path = Join(CkptDir, n)

\* The name of the file of the checkpoint directory at path.
BaseName(path) == CHOOSE n \in DOMAIN disk : path = Join(CkptDir, n)

\* What a failure raises; NoError when the call returned.
NoError == [type |-> "", names |-> <<>>]
ValueError(names) == [type |-> "ValueError", names |-> names]

\* The result of find_latest_checkpoint: a path or an error.
PathIfNotDir(path) == [path |-> path, error |-> NoError]

\* find_latest_checkpoint that returns the directory when it finds nothing.
find_latest_checkpoint_or_dir(path) ==
    IF ~IsDir(path) THEN PathIfNotDir(path)
    ELSE LET names == Sorted({name \in ListDir(path) :
                                 EndsWith(name, DescriptorSuffix)})
         IN  IF names # <<>>
             THEN [path |-> Join(path, names[Len(names)]), error |-> NoError]
             ELSE [path |-> path, error |-> NoError]

find_latest_checkpoint(path) ==
    IF ~IsDir(path) THEN PathIfNotDir(path)
    ELSE LET names == Sorted({name \in ListDir(path) :
                                 EndsWith(name, DescriptorSuffix)})
         IN  IF names # <<>>
             THEN [path |-> Join(path, names[Len(names)]), error |-> NoError]
             ELSE [path |-> NoPath, error |-> ValueError(path)]

----------------------------------------------------------------------------
(* The session context and global_step.                                    *)

NoContext ==
    [keys |-> {}, experiment |-> NoExperiment, strategy |-> 1,
     global_step |-> 0, datasets |-> [d \in Datasets |-> 0],
     optimizers |-> <<>>, principals |-> [m \in Models |-> 0],
     strategic_extensions |-> <<>>]

RECURSIVE SumSeq(_)
SumSeq(s) == IF s = <<>> THEN 0 ELSE Head(s) + SumSeq(Tail(s))

Max(a, b) == IF a >= b THEN a ELSE b

\* int(strategy.reduce(ReduceOp.MEAN, optimizer.iterations, axis=None)):
\* the per-replica values of the int64 counter, averaged.
ReduceMean(values) == SumSeq(values) \div Len(values)

\* The loop of global_step over context['optimizers'].values().
RECURSIVE MostActive(_, _)
MostActive(step, optimizers) ==
    IF optimizers = <<>> THEN step
    ELSE MostActive(Max(step, ReduceMean(Head(optimizers).iterations)),
                    Tail(optimizers))

\* global_step without the record from the checkpoint.
global_step_of_session(ctx) == MostActive(0, ctx.optimizers)

global_step(ctx) == MostActive(0, ctx.optimizers) + ctx.global_step

----------------------------------------------------------------------------
(* The replica-aware training adapter and the datasets.                    *)

\* The closure build_strategic_training_model returns: the model it trains
\* and the optimizer it applies the gradients with.
Adapter(base_model, optimizer) ==
    [base_model |-> base_model, optimizer |-> optimizer]
NoAdapter == Adapter(NoPath, "")

\* next(dataset): the iterator of the dataset advances by one batch.
NextBatch(ctx, dataset) ==
    [ctx EXCEPT !.datasets[dataset] = @ + 1]

\* optimizer.apply_gradients on every replica: the optimizer's counter grows
\* by one on each replica.
ApplyGradients(iterations) ==
    [r \in DOMAIN iterations |-> iterations[r] + 1]

\* One call of train_one_step_in_graph: the adapter's optimizer applies one
\* update to the adapter's model. The extension model named m is built
\* around the principal model named m, whose weights the update changes;
\* principals[m] counts the updates those weights went through.
train_one_step_in_graph(ctx, adapter) ==
    LET applied(optimizer) ==
            IF optimizer.name = adapter.optimizer
            THEN [optimizer EXCEPT !.iterations = ApplyGradients(@)]
            ELSE optimizer
    IN  [ctx EXCEPT
            !.optimizers = [i \in DOMAIN @ |-> applied(@[i])],
            !.principals[adapter.base_model] = @ + 1]

----------------------------------------------------------------------------
(* load_experiment, build_datasets, build_models.                          *)

\* The yaml at path, parsed.
ReadExperiment(path) ==
    IF path = FreshPath THEN fresh ELSE disk[BaseName(path)].experiment

\* Whether yaml.load of the file at path gives a mapping: a file opened for
\* writing and not yet dumped is empty.
Readable(path) == path = FreshPath \/ disk[BaseName(path)].complete

\* The yamls load_experiment rejects: one of the three keys it needs is
\* missing (or, for the paths, empty).
InvalidExperiments ==
    {[NoExperiment EXCEPT !.name = Missing],
     [NoExperiment EXCEPT !.summary = [path |-> Missing]],
     [NoExperiment EXCEPT !.checkpoint = [path |-> Missing]]}

\* load_experiment's checks of the parsed yaml but the one of
\* checkpoint.path.
ExperimentErrorNoCheckpoint(experiment) ==
    IF experiment.name = Missing THEN ValueError(<<"name">>)
    ELSE IF experiment.summary.path = Missing THEN ValueError(<<"scribe">>)
    ELSE NoError

\* load_experiment's checks of the parsed yaml, in the order of the code.
ExperimentError(experiment) ==
    IF experiment.name = Missing THEN ValueError(<<"name">>)
    ELSE IF experiment.summary.path = Missing THEN ValueError(<<"scribe">>)
    ELSE IF experiment.checkpoint.path = Missing
    THEN ValueError(<<"checkpoint">>)
    ELSE NoError

\* load_experiment that starts every session from step 0, whatever the
\* yaml says.
load_experiment_from_zero(path) ==
    [NoContext EXCEPT
        !.keys = {"experiment", "strategy", "global_step"},
        !.experiment = [ReadExperiment(path) EXCEPT !.global_step = 0],
        !.strategy = replicas,
        !.global_step = 0]

\* load_experiment up to its return value.
load_experiment(path) ==
    LET read == ReadExperiment(path)
        experiment ==
            IF read.global_step = Absent
            THEN [read EXCEPT !.global_step = 0] ELSE read
    IN  [NoContext EXCEPT
            !.keys = {"experiment", "strategy", "global_step"},
            !.experiment = experiment,
            !.strategy = replicas,
            !.global_step = experiment.global_step]

\* The loop of build_models over optimizers_config.items().
RECURSIVE BuildOptimizers(_, _)
BuildOptimizers(ctx, configs) ==
    IF configs = <<>> THEN ctx
    ELSE LET config == Head(configs)
             model_name == config.extension_model
             built == [ctx EXCEPT !.optimizers = Append(@,
                          [name |-> config.name,
                           iterations |-> [r \in 1..ctx.strategy |-> 0]])]
             strategic_model == Adapter(model_name, config.name)
             called == train_one_step_in_graph(
                           NextBatch(built, config.dataset), strategic_model)
         IN  BuildOptimizers(
                 [called EXCEPT
                     !.strategic_extensions[model_name] = strategic_model],
                 Tail(configs))

\* Whether load_weights can read every weight file build_models loads.
WeightsReadable(experiment) ==
    \A m \in Models :
        IsFile(experiment.principals[m])
            => disk[BaseName(experiment.principals[m])].complete

\* The loop of build_models that loads the weights.
LoadWeights(ctx) ==
    [ctx EXCEPT !.principals =
        [m \in Models |->
            IF IsFile(ctx.experiment.principals[m])
            THEN disk[BaseName(ctx.experiment.principals[m])].weights
            ELSE @[m]]]

\* build_datasets: context['datasets'], every iterator at its start.
build_datasets(ctx) ==
    [ctx EXCEPT !.keys = @ \cup {"datasets"},
                !.datasets = [d \in Datasets |-> 0]]

\* What build_models raises without its check of context['datasets'].
BuildModelsErrorUnchecked(ctx) ==
    IF ~WeightsReadable(ctx.experiment)
    THEN [type |-> "OSError", names |-> NoPath]
    ELSE NoError

\* What build_models raises: its first statement checks that the datasets
\* are built; load_weights fails on a weight file that is not written yet.
BuildModelsError(ctx) ==
    IF "datasets" \notin ctx.keys THEN ValueError(NoPath)
    ELSE IF ~WeightsReadable(ctx.experiment)
    THEN [type |-> "OSError", names |-> NoPath]
    ELSE NoError

\* build_models past its check, when nothing fails.
build_models(ctx) ==
    LET fresh_models ==
            [ctx EXCEPT !.keys = @ \cup {"models", "optimizers"},
                        !.principals = [m \in Models |-> 0],
                        !.optimizers = <<>>,
                        !.strategic_extensions = [m \in Models |-> NoAdapter]]
    IN  LoadWeights(BuildOptimizers(fresh_models,
                                    ctx.experiment.optimizers))

----------------------------------------------------------------------------
(* train, validate.                                                        *)

\* experiment['optimizers'][name]
OptimizerConfig(experiment, name) ==
    experiment.optimizers[CHOOSE i \in DOMAIN experiment.optimizers :
                              experiment.optimizers[i].name = name]

\* A gate that opens one step before the cycle is complete.
FiresOneEarly(cycle, step) == (step + 1) % cycle = 0

\* fires(cycle, step)
Fires(cycle, step) == step % cycle = 0

\* The loop of train with global_step(context) read again for each
\* optimizer.
RECURSIVE TrainEachRereading(_, _, _)
TrainEachRereading(ctx, step, names) ==
    IF names = <<>> THEN ctx
    ELSE LET config == OptimizerConfig(ctx.experiment, Head(names))
         IN  IF ~Fires(config.cycle, global_step(ctx))
             THEN TrainEachRereading(ctx, step, Tail(names))
             ELSE TrainEachRereading(
                      train_one_step_in_graph(
                          NextBatch(ctx, config.dataset),
                          ctx.strategic_extensions[config.extension_model]),
                      step, Tail(names))

\* The loop of train over context['optimizers'].
RECURSIVE TrainEach(_, _, _)
TrainEach(ctx, step, names) ==
    IF names = <<>> THEN ctx
    ELSE LET config == OptimizerConfig(ctx.experiment, Head(names))
         IN  IF ~Fires(config.cycle, step)
             THEN TrainEach(ctx, step, Tail(names))
             ELSE TrainEach(
                      train_one_step_in_graph(
                          NextBatch(ctx, config.dataset),
                          ctx.strategic_extensions[config.extension_model]),
                      step, Tail(names))

train(ctx) ==
    TrainEach(ctx, global_step(ctx),
              [i \in DOMAIN ctx.optimizers |-> ctx.optimizers[i].name])

\* The loop of validate over experiment['validators'].
RECURSIVE ValidateEach(_, _, _)
ValidateEach(ctx, step, validators) ==
    IF validators = <<>> THEN ctx
    ELSE IF ~Fires(Head(validators).cycle, step)
         THEN ValidateEach(ctx, step, Tail(validators))
         ELSE ValidateEach(NextBatch(ctx, Head(validators).dataset),
                           step, Tail(validators))

validate(ctx) == ValidateEach(ctx, global_step(ctx), ctx.experiment.validators)

\* The validators that act at step.
Validating(ctx, step) ==
    {i \in DOMAIN ctx.experiment.validators :
        Fires(ctx.experiment.validators[i].cycle, step)}

----------------------------------------------------------------------------
(* The process: __main__, the start-up and the loop.                       *)

NoLocal == [step |-> 0, todo |-> <<>>]
NoObs == [loops |-> 0, validated |-> {}, saved |-> {}, error |-> NoError]
NoLocated == [path |-> NoPath, error |-> NoError]
NoGrad == [losses |-> <<>>, applied |-> [num |-> 0, den |-> 1], done |-> FALSE]
NoGs == [counters |-> <<>>, result |-> 0, done |-> FALSE]
NoRs == [source |-> <<>>, data |-> <<>>, experiment_name |-> <<>>,
         done |-> FALSE]
NoBm == [given |-> NoContext, context |-> NoContext, error |-> NoError,
         done |-> FALSE]

\* The checkpoint descriptors of the directory, written or being written.
Descriptors == {n \in DOMAIN disk : EndsWith(n, DescriptorSuffix)}

\* name -> content, written over whatever disk held under name.
Written(name, content) ==
    [n \in DOMAIN disk \cup {name} |-> IF n = name THEN content ELSE disk[n]]

\* The phase of the loop the process is in, "" outside the loop.
Phase(at) ==
    IF at \in {"train", "validate"} THEN at
    ELSE IF at \in {"save", "save_weights", "save_weights_write",
                    "save_descriptor", "save_dump"} THEN "save"
    ELSE ""

\* What a phase of the loop raises when it fails.
RuntimeError(phase) == [type |-> "RuntimeError", names |-> <<phase>>]

\* The loop with its body in a try block: an exception is noted and the
\* loop starts its next iteration.
RaiseAndGoOn(error) ==
    /\ pc' = IF Phase(pc) = "" THEN "stopped" ELSE "train"
    /\ context' = IF Phase(pc) = "" THEN NoContext ELSE context
    /\ local' = NoLocal
    /\ obs' = [NoObs EXCEPT !.error = error]

\* The process ends with an uncaught exception.
Raise(error) ==
    /\ pc' = "stopped"
    /\ context' = NoContext
    /\ local' = NoLocal
    /\ obs' = [NoObs EXCEPT !.error = error]

\* __main__ up to the call of train_validate_save.
Start(path) ==
    /\ pc = "stopped"
    /\ launches' = launches + 1
    /\ argv' = path
    /\ located' = find_latest_checkpoint(path)
    /\ context' = NoContext
    /\ local' = NoLocal
    /\ obs' = [NoObs EXCEPT !.error = located'.error]
    /\ pc' = IF located'.error = NoError THEN "load_experiment" ELSE "stopped"
    /\ UNCHANGED <<fresh, dirExists, disk, replicas, loops, grad, gs,
                   rs, bm>>

\* A process is started on the fresh yaml (while the directory holds no
\* checkpoint) or on the checkpoint directory.
Main(path) ==
    /\ launches < MaxLaunches
    /\ path = FreshPath => Descriptors = {}
    /\ Start(path)

LoadExperiment ==
    /\ pc = "load_experiment"
    /\ IF ~IsFile(located.path)
       THEN Raise(ValueError(located.path)) /\ UNCHANGED dirExists
       ELSE IF ~Readable(located.path)
       THEN Raise([type |-> "TypeError", names |-> located.path])
            /\ UNCHANGED dirExists
       ELSE IF ExperimentError(ReadExperiment(located.path)) # NoError
       THEN Raise(ExperimentError(ReadExperiment(located.path)))
            /\ UNCHANGED dirExists
       ELSE /\ context' = load_experiment(located.path)
            /\ dirExists' = TRUE
            /\ pc' = "build_datasets"
            /\ UNCHANGED <<local, obs>>
    /\ UNCHANGED <<fresh, disk, replicas, argv, located, launches, loops, grad, gs,
                   rs, bm>>

BuildDatasets ==
    /\ pc = "build_datasets"
    /\ context' = build_datasets(context)
    /\ pc' = "build_models"
    /\ UNCHANGED <<fresh, dirExists, disk, replicas, argv, located, local, obs,
                   launches, loops, grad, gs,
                   rs, bm>>

BuildModels ==
    /\ pc = "build_models"
    /\ IF BuildModelsError(context) # NoError
       THEN Raise(BuildModelsError(context))
       ELSE /\ context' = build_models(context)
            /\ pc' = "train"
            /\ UNCHANGED <<local, obs>>
    /\ UNCHANGED <<fresh, dirExists, disk, replicas, argv, located, launches,
                   loops, grad, gs,
                   rs, bm>>

\* One train phase. The loop has no end; the model stops starting
\* iterations once MaxLoops of them have been started by all processes.
Train ==
    /\ pc = "train"
    /\ loops < MaxLoops
    /\ loops' = loops + 1
    /\ context' = train(context)
    /\ pc' = "validate"
    /\ UNCHANGED <<fresh, dirExists, disk, replicas, argv, located, local, obs,
                   launches, grad, gs,
                   rs, bm>>

Validate ==
    /\ pc = "validate"
    /\ context' = validate(context)
    /\ obs' = IF Validating(context, global_step(context)) # {}
              THEN [obs EXCEPT !.validated = @ \cup {global_step(context)}]
              ELSE obs
    /\ pc' = "save"
    /\ UNCHANGED <<fresh, dirExists, disk, replicas, argv, located, local,
                   launches, loops, grad, gs,
                   rs, bm>>

----------------------------------------------------------------------------
(* save, one file operation at a time.                                     *)

\* save with the descriptor written first.
SaveNextDescriptorFirst(todo) == "save_descriptor"

\* Where save goes once the models in todo are still to be written: the
\* weights of every principal model first, the descriptor last.
SaveNext(todo) == IF todo = <<>> THEN "save_descriptor" ELSE "save_weights"

\* The step stored as the base offset of the running session too.
StoreStepAsOffset(ctx, step) ==
    [ctx EXCEPT !.experiment.global_step = step, !.global_step = step]

\* experiment['global_step'] = step
StoreStep(ctx, step) == [ctx EXCEPT !.experiment.global_step = step]

\* save, from its first line to the first file operation: the gate, and
\* experiment['global_step'] = step.
SaveGate ==
    /\ pc = "save"
    /\ LET step == global_step(context)
       IN  IF ~Fires(context.experiment.checkpoint_cycle, step)
           THEN /\ pc' = "train"
                /\ obs' = [obs EXCEPT !.loops = @ + 1]
                /\ UNCHANGED <<context, local>>
           ELSE /\ context' = StoreStep(context, step)
                /\ local' = [step |-> step, todo |-> ModelOrder]
                /\ obs' = [obs EXCEPT !.saved = @ \cup {step}]
                /\ pc' = SaveNext(ModelOrder)
    /\ UNCHANGED <<fresh, dirExists, disk, replicas, argv, located, launches,
                   loops, grad, gs,
                   rs, bm>>

\* save_weights(path) opens the weight file: it exists and is empty.
SaveWeightsOpen ==
    /\ pc = "save_weights"
    /\ disk' = Written(WeightName(local.step, Head(local.todo)),
                       WeightFile(FALSE, 0))
    /\ pc' = "save_weights_write"
    /\ UNCHANGED <<fresh, dirExists, replicas, argv, located, context, local,
                   obs, launches, loops, grad, gs,
                   rs, bm>>

\* save_weights(path) writes the weights and returns; config['path'] = path.
SaveWeightsWrite ==
    /\ pc = "save_weights_write"
    /\ LET model_name == Head(local.todo)
           name == WeightName(local.step, model_name)
       IN  /\ disk' = Written(name,
                         WeightFile(TRUE, context.principals[model_name]))
           /\ context' = [context EXCEPT
                  !.experiment.principals[model_name] = Join(CkptDir, name)]
    /\ local' = [local EXCEPT !.todo = Tail(@)]
    /\ pc' = SaveNext(Tail(local.todo))
    /\ UNCHANGED <<fresh, dirExists, replicas, argv, located, obs, launches,
                   loops, grad, gs,
                   rs, bm>>

\* open(path, 'w') of the descriptor: it exists (or is truncated) and is empty.
SaveDescriptorOpen ==
    /\ pc = "save_descriptor"
    /\ disk' = Written(DescriptorName(local.step),
                       DescriptorFile(FALSE, NoExperiment))
    /\ pc' = "save_dump"
    /\ UNCHANGED <<fresh, dirExists, replicas, argv, located, context, local,
                   obs, launches, loops, grad, gs,
                   rs, bm>>

\* dumper.dump(experiment) and the end of the with block; save returns and
\* the loop starts its next iteration.
SaveDump ==
    /\ pc = "save_dump"
    /\ disk' = Written(DescriptorName(local.step),
                       DescriptorFile(TRUE, context.experiment))
    /\ obs' = [obs EXCEPT !.loops = @ + 1]
    /\ local' = NoLocal
    /\ pc' = "train"
    /\ UNCHANGED <<fresh, dirExists, replicas, argv, located, context,
                   launches, loops, grad, gs,
                   rs, bm>>

\* A phase of the loop fails: a call of tensorflow, of the dataset, of the
\* file system raises. Nothing of the loop catches it.
Fail ==
    /\ Phase(pc) # ""
    /\ Raise(RuntimeError(Phase(pc)))
    /\ UNCHANGED <<fresh, dirExists, disk, replicas, argv, located, launches,
                   loops, grad, gs,
                   rs, bm>>

\* The process is killed, wherever it is.
Kill ==
    /\ pc # "stopped"
    /\ pc' = "stopped"
    /\ context' = NoContext
    /\ local' = NoLocal
    /\ obs' = NoObs
    /\ UNCHANGED <<fresh, dirExists, disk, replicas, argv, located, launches,
                   loops, grad, gs,
                   rs, bm>>

----------------------------------------------------------------------------
(* The specification of the process and its restarts.                      *)

\* Replicas run in lock step, so the process is modelled with one replica
\* count, the largest; SpecStep and SpecGrad range over all counts.
Init ==
    /\ fresh \in FreshExperiments \cup InvalidExperiments
    /\ replicas = MaxReplicas
    /\ \/ dirExists = FALSE /\ disk = <<>>
       \/ dirExists = TRUE /\ disk = [n \in {Unrelated} |-> OtherFile]
    /\ pc = "stopped"
    /\ argv = NoPath
    /\ located = NoLocated
    /\ context = NoContext
    /\ local = NoLocal
    /\ obs = NoObs
    /\ launches = 0
    /\ loops = 0
    /\ grad = NoGrad
    /\ gs = NoGs
    /\ rs = NoRs
    /\ bm = NoBm

Next ==
    \/ \E path \in {FreshPath, CkptDir} : Main(path)
    \/ LoadExperiment
    \/ BuildDatasets
    \/ BuildModels
    \/ Train
    \/ Validate
    \/ SaveGate
    \/ SaveWeightsOpen
    \/ SaveWeightsWrite
    \/ SaveDescriptorOpen
    \/ SaveDump
    \/ Fail
    \/ Kill

Spec == Init /\ [][Next]_vars

----------------------------------------------------------------------------
(* find_latest_checkpoint on the directories save leaves behind.           *)

\* The experiment save dumps at step.
SavedExperiment(step) ==
    [NoExperiment EXCEPT
        !.global_step = step,
        !.principals = [m \in Models |-> Join(CkptDir, WeightName(step, m))]]

\* The files of the checkpoint directory after complete saves at steps,
\* with or without a file that is no part of any checkpoint.
Directory(steps, other) ==
    LET names == {DescriptorName(step) : step \in steps}
                 \cup {WeightName(step, m) : step \in steps, m \in Models}
                 \cup (IF other THEN {Unrelated} ELSE {})
        step_of(n) == CHOOSE step \in steps :
                          \/ n = DescriptorName(step)
                          \/ \E m \in Models : n = WeightName(step, m)
    IN  [n \in names |->
            IF n = Unrelated THEN OtherFile
            ELSE IF n = DescriptorName(step_of(n))
                 THEN DescriptorFile(TRUE, SavedExperiment(step_of(n)))
                 ELSE WeightFile(TRUE, step_of(n))]

MissingPath == <<"x">>
LocatePaths ==
    {FreshPath, CkptDir, MissingPath, Join(CkptDir, DescriptorName(0)),
     Join(CkptDir, Unrelated)}

InitLocate ==
    /\ fresh = NoExperiment
    /\ replicas = 1
    /\ \/ dirExists = FALSE /\ disk = <<>>
       \/ /\ dirExists = TRUE
          /\ \E steps \in SUBSET (0..MaxStep), other \in BOOLEAN :
                /\ Cardinality(steps) <= MaxGenerations
                /\ disk = Directory(steps, other)
    /\ pc = "stopped"
    /\ argv = NoPath
    /\ located = NoLocated
    /\ context = NoContext
    /\ local = NoLocal
    /\ obs = NoObs
    /\ launches = 0
    /\ loops = 0
    /\ grad = NoGrad
    /\ gs = NoGs
    /\ rs = NoRs
    /\ bm = NoBm

NextLocate == \E path \in LocatePaths : launches = 0 /\ Start(path)

SpecLocate == InitLocate /\ [][NextLocate]_vars

----------------------------------------------------------------------------
(* global_step on the contexts a session can hold.                         *)

Offsets == {Absent, 0, 5, 10}

\* The context of a session whose optimizers have made counters[i] updates.
SessionContext(counters) ==
    [load_experiment(FreshPath) EXCEPT
        !.optimizers =
            [i \in DOMAIN counters |->
                [name |-> <<"o1", "o2", "o3">>[i],
                 iterations |-> [r \in 1..replicas |-> counters[i]]]]]

InitStep ==
    /\ \E offset \in Offsets : fresh = [NoExperiment EXCEPT !.global_step = offset]
    /\ replicas \in 1..MaxReplicas
    /\ dirExists = FALSE
    /\ disk = <<>>
    /\ pc = "stopped"
    /\ argv = NoPath
    /\ located = NoLocated
    /\ context = NoContext
    /\ local = NoLocal
    /\ obs = NoObs
    /\ launches = 0
    /\ loops = 0
    /\ grad = NoGrad
    /\ \E n \in 0..2 : \E counters \in [1..n -> 0..MaxCount] :
          gs = [NoGs EXCEPT !.counters = counters]
    /\ rs = NoRs
    /\ bm = NoBm

GlobalStep ==
    /\ ~gs.done
    /\ gs' = [gs EXCEPT !.result = global_step(SessionContext(gs.counters)),
                        !.done = TRUE]
    /\ UNCHANGED <<fresh, dirExists, disk, replicas, pc, argv, located, context,
                   local, obs, launches, loops, grad, rs, bm>>

NextStep == GlobalStep

SpecStep == InitStep /\ [][NextStep]_vars

----------------------------------------------------------------------------
(* The loss train_one_step differentiates, as a fraction num / den.        *)

\* tf.reduce_sum(loss)
reduce_sum(loss) == SumSeq(loss)

\* train_one_step that does not divide by the number of replicas.
train_one_step_unscaled(loss, num_replicas) ==
    [num |-> reduce_sum(loss), den |-> 1]

\* loss = tf.reduce_sum(loss) * (1.0 / num_replicas), on one replica
train_one_step(loss, num_replicas) ==
    [num |-> reduce_sum(loss), den |-> num_replicas]

\* apply_gradients inside the strategy scope sums the gradients over the
\* replicas: the update is the gradient of the sum of the replicas' losses.
RECURSIVE SumOverReplicas(_)
SumOverReplicas(losses) ==
    IF losses = <<>> THEN [num |-> 0, den |-> 1]
    ELSE LET rest == SumOverReplicas(Tail(losses))
         IN  [num |-> Head(losses).num * rest.den + rest.num * Head(losses).den,
              den |-> Head(losses).den * rest.den]

InitGrad ==
    /\ fresh = NoExperiment
    /\ replicas \in 1..MaxReplicas
    /\ dirExists = FALSE
    /\ disk = <<>>
    /\ pc = "stopped"
    /\ argv = NoPath
    /\ located = NoLocated
    /\ context = NoContext
    /\ local = NoLocal
    /\ obs = NoObs
    /\ launches = 0
    /\ loops = 0
    /\ gs = NoGs
    /\ rs = NoRs
    /\ bm = NoBm
    /\ \E n \in 1..MaxElements :
          \E losses \in [1..replicas -> [1..n -> 0..MaxLoss]] :
              grad = [NoGrad EXCEPT !.losses = losses]

\* One call of train_one_step_in_graph on a batch whose per-element losses
\* on replica r are grad.losses[r].
TrainOneStep ==
    /\ ~grad.done
    /\ grad' = [grad EXCEPT
                   !.applied = SumOverReplicas(
                       [r \in 1..replicas |->
                           train_one_step(grad.losses[r], replicas)]),
                   !.done = TRUE]
    /\ UNCHANGED <<fresh, dirExists, disk, replicas, pc, argv, located, context,
                   local, obs, launches, loops, gs,
                   rs, bm>>

NextGrad == TrainOneStep

SpecGrad == InitGrad /\ [][NextGrad]_vars

----------------------------------------------------------------------------
(* resolve_strings, called once on a nested structure.                     *)

MaxDepth == 2           \* containers nested in the outermost container
MaxPieces == 2          \* pieces a string leaf is made of

\* '{experiment_name}'
Placeholder ==
    <<"{", "e", "x", "p", "e", "r", "i", "m", "e", "n", "t", "_", "n", "a",
      "m", "e", "}">>

\* What the strings of the yaml are made of. None but Placeholder holds a
\* "}", so the occurrences of the placeholder in a string are exactly the
\* pieces that are Placeholder.
Pieces == {Placeholder, <<"{">>, <<"~", "/">>, <<"/">>}

Home == <<"/", "h">>    \* what ~ expands to
Cwd == <<"/", "w">>     \* the working directory

\* Mapping keys: one contains 'path'.
Keys == {<<"n", "a", "m", "e">>, <<"a", "p", "a", "t", "h", "s">>}

\* The nodes of a structure. A list or a dict holds its values in items, a
\* dict their keys in keys; a string leaf holds its text in str (here as
\* the sequence of its pieces), any other leaf its value in num.
StrNode(str) == [type |-> "str", keys |-> <<>>, items |-> <<>>, str |-> str,
                 num |-> 0]
IntNode(num) == [type |-> "int", keys |-> <<>>, items |-> <<>>, str |-> <<>>,
                 num |-> num]
ListNode(items) == [type |-> "list", keys |-> <<>>, items |-> items,
                    str |-> <<>>, num |-> 0]
DictNode(keys, items) == [type |-> "dict", keys |-> keys, items |-> items,
                          str |-> <<>>, num |-> 0]

PieceSeqs == UNION {[1..n -> Pieces] : n \in 0..MaxPieces}
Leaves == {StrNode(p) : p \in PieceSeqs} \cup {IntNode(7)}

\* The containers of depth at most depth, and what they may hold.
RECURSIVE Containers(_)
Values(depth) == IF depth = 0 THEN Leaves ELSE Leaves \cup Containers(depth - 1)
Containers(depth) ==
    LET values == Values(depth)
    IN  {ListNode(<<v>>) : v \in values}
        \cup {ListNode(<<IntNode(7), v>>) : v \in values}
        \cup {DictNode(<<k>>, <<v>>) : k \in Keys, v \in values}

\* s ++ t of two strings, and the concatenation of a sequence of strings.
RECURSIVE Concat(_)
Concat(strings) ==
    IF strings = <<>> THEN <<>> ELSE Head(strings) \o Concat(Tail(strings))

\* The structure with every string leaf as its text.
RECURSIVE Text(_)
Text(node) ==
    IF node.type = "str" THEN [node EXCEPT !.str = Concat(node.str)]
    ELSE [node EXCEPT !.items = [i \in DOMAIN node.items |-> Text(node.items[i])]]

\* old is at position i of s
OccursAt(s, old, i) ==
    /\ i + Len(old) - 1 <= Len(s)
    /\ SubSeq(s, i, i + Len(old) - 1) = old

\* old in s
Contains(s, old) == \E i \in 1..Len(s) : OccursAt(s, old, i)

\* s.replace(old, new): from the left, occurrences that do not overlap.
RECURSIVE Replace(_, _, _)
Replace(s, old, new) ==
    IF s = <<>> THEN <<>>
    ELSE IF OccursAt(s, old, 1)
    THEN new \o Replace(SubSeq(s, Len(old) + 1, Len(s)), old, new)
    ELSE <<Head(s)>> \o Replace(Tail(s), old, new)

\* The components of a path: what stands between its slashes, but nothing.
RECURSIVE Components(_, _)
Components(s, component) ==
    IF s = <<>> THEN (IF component = <<>> THEN <<>> ELSE <<component>>)
    ELSE IF Head(s) = "/"
    THEN (IF component = <<>> THEN <<>> ELSE <<component>>)
         \o Components(Tail(s), <<>>)
    ELSE Components(Tail(s), Append(component, Head(s)))

\* str(pathlib.Path(root) / c1 / c2 ...)
RECURSIVE JoinPath(_, _)
JoinPath(root, components) ==
    IF components = <<>> THEN root
    ELSE JoinPath(root \o <<"/">> \o Head(components), Tail(components))

\* What resolve_strings makes of a string under a key that contains 'path'.
\* No component is '.' or '..' and no file is a link.
ResolvePath(val) ==
    IF val # <<>> /\ Head(val) = "/" THEN val
    ELSE IF val # <<>> /\ Head(val) = "~"
    THEN JoinPath(Home, Tail(Components(val, <<>>)))
    ELSE JoinPath(Cwd, Components(val, <<>>))

\* resolve_strings that leaves nested lists and dicts alone.
resolve_strings_flat(data, experiment_name) ==
    [data EXCEPT !.items = [i \in DOMAIN data.items |->
        LET val == data.items[i]
        IN  IF val.type = "str"
            THEN LET replaced == Replace(val.str, Placeholder, experiment_name)
                 IN  [val EXCEPT !.str =
                         IF data.type = "dict" /\ Contains(data.keys[i], <<"p", "a", "t", "h">>)
                         THEN ResolvePath(replaced) ELSE replaced]
            ELSE val]]

\* resolve_strings(data, experiment_name); the structure it leaves in data.
RECURSIVE resolve_strings(_, _)
resolve_strings(data, experiment_name) ==
    [data EXCEPT !.items = [i \in DOMAIN data.items |->
        LET val == data.items[i]
        IN  IF val.type \in {"list", "dict"}
            THEN resolve_strings(val, experiment_name)
            ELSE IF val.type = "str"
            THEN LET replaced == Replace(val.str, Placeholder, experiment_name)
                 IN  [val EXCEPT !.str =
                         IF data.type = "dict" /\ Contains(data.keys[i], <<"p", "a", "t", "h">>)
                         THEN ResolvePath(replaced) ELSE replaced]
            ELSE val]]

\* The names of experiments.
Names == {ExperimentName, <<>>}

InitResolve ==
    /\ fresh = NoExperiment
    /\ replicas = 1
    /\ dirExists = FALSE
    /\ disk = <<>>
    /\ pc = "stopped"
    /\ argv = NoPath
    /\ located = NoLocated
    /\ context = NoContext
    /\ local = NoLocal
    /\ obs = NoObs
    /\ launches = 0
    /\ loops = 0
    /\ grad = NoGrad
    /\ gs = NoGs
    /\ bm = NoBm
    /\ \E source \in Containers(MaxDepth), experiment_name \in Names :
          rs = [source |-> source, data |-> Text(source),
                experiment_name |-> experiment_name, done |-> FALSE]

\* One call of resolve_strings on rs.data.
ResolveStrings ==
    /\ ~rs.done
    /\ rs' = [rs EXCEPT !.data = resolve_strings(rs.data, rs.experiment_name),
                        !.done = TRUE]
    /\ UNCHANGED <<fresh, dirExists, disk, replicas, pc, argv, located, context,
                   local, obs, launches, loops, grad, gs, bm>>

NextResolve == ResolveStrings

SpecResolve == InitResolve /\ [][NextResolve]_vars

----------------------------------------------------------------------------
(* build_models, called once on a session context.                         *)

MaxPulled == 1          \* batches pulled from a dataset before the call

\* The contexts build_models may be given: that of load_experiment, and
\* that with the datasets built (and some batches pulled from them).
InitBuild ==
    /\ fresh \in FreshExperiments
    /\ replicas \in 1..MaxReplicas
    /\ dirExists = FALSE
    /\ disk = <<>>
    /\ pc = "stopped"
    /\ argv = NoPath
    /\ located = NoLocated
    /\ context = NoContext
    /\ local = NoLocal
    /\ obs = NoObs
    /\ launches = 0
    /\ loops = 0
    /\ grad = NoGrad
    /\ gs = NoGs
    /\ rs = NoRs
    /\ \/ bm = [NoBm EXCEPT !.given = load_experiment(FreshPath),
                             !.context = load_experiment(FreshPath)]
       \/ \E pulled \in 0..MaxPulled :
             LET ctx == [build_datasets(load_experiment(FreshPath))
                            EXCEPT !.datasets["A"] = pulled]
             IN  bm = [NoBm EXCEPT !.given = ctx, !.context = ctx]

\* One call of build_models on bm.context: it raises, or returns with the
\* models in the context.
CallBuildModels ==
    /\ ~bm.done
    /\ bm' = IF BuildModelsError(bm.context) # NoError
             THEN [bm EXCEPT !.error = BuildModelsError(bm.context),
                             !.done = TRUE]
             ELSE [bm EXCEPT !.context = build_models(bm.context),
                             !.done = TRUE]
    /\ UNCHANGED <<fresh, dirExists, disk, replicas, pc, argv, located, context,
                   local, obs, launches, loops, grad, gs, rs>>

NextBuild == CallBuildModels

SpecBuild == InitBuild /\ [][NextBuild]_vars

----------------------------------------------------------------------------
(* What the claims speak of.                                               *)

\* The optimizer updates the running process has performed.
RECURSIVE Updates(_)
Updates(optimizers) ==
    IF optimizers = <<>> THEN 0
    ELSE Head(optimizers).iterations[1] + Updates(Tail(optimizers))

\* The descriptors whose dump has finished.
Dumped == {n \in Descriptors : disk[n].complete}

\* The generation of descriptor n is complete: the descriptor is dumped and
\* every weight file it names is on disk, completely written.
CompleteGeneration(n) ==
    /\ disk[n].complete
    /\ \A m \in Models :
          LET path == disk[n].experiment.principals[m]
          IN  /\ \E w \in DOMAIN disk : path = Join(CkptDir, w)
              /\ disk[BaseName(path)].complete

\* The scenario of the end-to-end property: one optimizer of cycle 1, one
\* validator of cycle 2, checkpoint cycle 2, global step 0 in the yaml, and
\* the first process has gone through four iterations of the loop.
EndToEndScenario ==
    /\ Len(fresh.optimizers) = 1
    /\ fresh.optimizers[1].cycle = 1
    /\ fresh.validators[1].cycle = 2
    /\ fresh.checkpoint_cycle = 2
    /\ launches = 1
    /\ argv = FreshPath
    /\ context.global_step = 0
    /\ pc = "train"
    /\ obs.loops = 4

\* C1: after start-up and four iterations of the loop in the end-to-end
\* scenario, exactly 4 optimizer updates have been performed, validation and
\* checkpointing have fired at steps 2 and 4 only, two generations exist and
\* find_latest_checkpoint returns the one of step 4.
C1_EndToEnd ==
    EndToEndScenario =>
        /\ Updates(context.optimizers) = 4
        /\ obs.validated = {2, 4}
        /\ obs.saved = {2, 4}
        /\ Dumped = {DescriptorName(2), DescriptorName(4)}
        /\ find_latest_checkpoint(CkptDir).path
               = Join(CkptDir, DescriptorName(4))

\* What the code does in the same scenario: 5 updates, the first of them in
\* build_models; the rest of the scenario is as stated.
C1_AsBuilt ==
    EndToEndScenario =>
        /\ Updates(context.optimizers) = 5
        /\ global_step(context) = 5
        /\ obs.validated = {2, 4}
        /\ obs.saved = {2, 4}
        /\ Dumped = {DescriptorName(2), DescriptorName(4)}
        /\ find_latest_checkpoint(CkptDir).path
               = Join(CkptDir, DescriptorName(4))

\* C2: once the process has been killed, find_latest_checkpoint on the
\* checkpoint directory never returns the descriptor of a generation whose
\* descriptor or weight files were not completely written.
C2_LatestIsComplete ==
    (pc = "stopped" /\ IsDir(CkptDir)
        /\ find_latest_checkpoint(CkptDir).error = NoError)
    => CompleteGeneration(BaseName(find_latest_checkpoint(CkptDir).path))

\* A step of the process creates or rewrites the descriptor file n.
WritesFile(n) ==
    /\ n \in DOMAIN disk'
    /\ n \notin DOMAIN disk \/ disk'[n] # disk[n]

\* C3: whenever save writes the descriptor file of step S, the weight file
\* of step S of every principal model is already on disk, completely
\* written, and it is the file the dumped descriptor names for that model.
C3_WeightsBeforeDescriptor ==
    [][\A n \in DOMAIN disk' :
          (EndsWith(n, DescriptorSuffix) /\ WritesFile(n)) =>
              /\ n = DescriptorName(local.step)
              /\ \A m \in Models :
                    LET w == WeightName(local.step, m)
                    IN  /\ w \in DOMAIN disk
                        /\ disk[w].complete
                        /\ disk'[n].complete =>
                              disk'[n].experiment.principals[m]
                                  = Join(CkptDir, w)]_vars

\* The descriptor of a step has been dumped and names two weight files.
C3_Witness ==
    \E n \in Dumped :
        /\ CompleteGeneration(n)
        /\ \A m \in Models :
              disk[n].experiment.principals[m]
                  = Join(CkptDir, WeightName(disk[n].experiment.global_step, m))

\* C5: with a single optimizer started from a yaml without global_step,
\* every checkpoint generation numbered S holds weights of the trained
\* principal model that went through exactly S optimizer updates, over all
\* iterations, checkpoint writes, kills and resumes.
C5_StepCountsUpdates ==
    (Len(fresh.optimizers) = 1) =>
        \A n \in Dumped :
            LET trained == fresh.optimizers[1].extension_model
                path == disk[n].experiment.principals[trained]
            IN  (IsFile(path) /\ disk[BaseName(path)].complete) =>
                    disk[BaseName(path)].weights
                        = disk[n].experiment.global_step

\* C6: once save has written the generation of step S, no later step of the
\* same process writes to the descriptor file or a weight file of step S.
C6_GenerationImmutable ==
    [][\A S \in obs.saved :
          DescriptorName(S) \in Dumped =>
              /\ ~WritesFile(DescriptorName(S))
              /\ \A m \in Models : ~WritesFile(WeightName(S, m))]_vars

\* The optimizers whose cycle is open at step, as indices of the list.
GateOpen(ctx, step) ==
    {i \in DOMAIN ctx.optimizers :
        Fires(OptimizerConfig(ctx.experiment, ctx.optimizers[i].name).cycle,
              step)}

\* C9: in the train phase, the counter of every optimizer whose cycle is
\* open at the current step grows by exactly one, the counter of every
\* other optimizer is unchanged, and each dataset gives one batch for every
\* open optimizer bound to it.
C9_TrainUpdatesOwnCounter ==
    [][(pc = "train" /\ pc' = "validate") =>
          LET step == global_step(context)
              open == GateOpen(context, step)
          IN  /\ \A i \in DOMAIN context.optimizers :
                    context'.optimizers[i].iterations
                        = IF i \in open
                          THEN [r \in 1..replicas |->
                                   context.optimizers[i].iterations[r] + 1]
                          ELSE context.optimizers[i].iterations
              /\ \A d \in Datasets :
                    context'.datasets[d] = context.datasets[d]
                        + Cardinality({i \in open :
                              OptimizerConfig(context.experiment,
                                  context.optimizers[i].name).dataset = d})]_vars

\* The greatest element of a non-empty set of integers.
Greatest(S) == CHOOSE x \in S : \A y \in S : y <= x

\* The counters of gs as a set.
Counters == {gs.counters[i] : i \in DOMAIN gs.counters}

\* The base offset the yaml gives a session.
BaseOffset == IF fresh.global_step = Absent THEN 0 ELSE fresh.global_step

\* C4: global_step returns the greatest of the optimizers' replica-mean
\* iteration counters plus the base offset read from the yaml at session
\* start, and the base offset alone with no optimizer or with all counters
\* 0; counters {3, 7} and offset 10 give 17, counters {0} and offset 5 give 5.
C4_GlobalStepArithmetic ==
    gs.done =>
        /\ gs.result = Greatest(Counters \cup {0}) + BaseOffset
        /\ (Counters \subseteq {0}) => gs.result = BaseOffset
        /\ (Counters = {3, 7} /\ BaseOffset = 10) => gs.result = 17
        /\ (Counters = {0} /\ BaseOffset = 5) => gs.result = 5

\* global_step has been called with counters 3 and 7 on two replicas and
\* offset 10.
C4_Witness ==
    /\ gs.done
    /\ gs.counters = <<3, 7>>
    /\ replicas = 2
    /\ fresh.global_step = 10
    /\ gs.result = 17

\* The step a dumped descriptor records.
StepOf(n) == disk[n].experiment.global_step

\* C7: on the checkpoint directory find_latest_checkpoint returns the
\* descriptor of the highest step among the descriptors save wrote there;
\* the names of the descriptors sort in the order of their steps, and files
\* that are no descriptors are never returned.
C7_LatestIsHighestStep ==
    (launches = 1 /\ argv = CkptDir /\ IsDir(CkptDir) /\ Dumped # {}) =>
        /\ located.error = NoError
        /\ \E n \in Dumped :
              /\ located.path = Join(CkptDir, n)
              /\ \A k \in Dumped : StepOf(k) <= StepOf(n)
        /\ \A a, b \in Dumped : StepOf(a) < StepOf(b) => StrLess(a, b)

\* The directory holds the generations of steps 9 and 10 and another file,
\* and find_latest_checkpoint has returned the descriptor of step 10.
C7_Witness ==
    /\ launches = 1
    /\ argv = CkptDir
    /\ {StepOf(n) : n \in Dumped} = {9, 10}
    /\ Unrelated \in DOMAIN disk
    /\ located.path = Join(CkptDir, DescriptorName(10))

\* No file of the directory is the descriptor of a step.
NoDescriptor == \A step \in 0..MaxStep : DescriptorName(step) \notin DOMAIN disk

\* C8: on a directory without any checkpoint descriptor
\* find_latest_checkpoint raises an error that names the directory and
\* returns no path; on a path that is no directory it returns the path,
\* whatever the directory holds.
C8_LocateRaisesOrReturnsPath ==
    launches = 1 =>
        /\ (IsDir(argv) /\ NoDescriptor) =>
              /\ located.error = ValueError(argv)
              /\ located.path = NoPath
              /\ pc = "stopped"
        /\ ~IsDir(argv) =>
              /\ located.path = argv
              /\ located.error = NoError

\* find_latest_checkpoint has raised on a directory that holds one file,
\* which is no descriptor.
C8_Witness ==
    /\ launches = 1
    /\ argv = CkptDir
    /\ DOMAIN disk = {Unrelated}
    /\ located.error.type = "ValueError"
    /\ located.error.names = CkptDir

\* The sum of all elements of all replicas' loss tensors.
TotalLoss == SumSeq([r \in DOMAIN grad.losses |-> SumSeq(grad.losses[r])])

\* The number of elements of one replica's loss tensor.
Elements == Len(grad.losses[1])

\* C10 as stated: the loss whose gradient is applied is the true mean loss,
\* the sum of all elements over all replicas divided by R * n.
C10_AppliedIsTrueMean ==
    grad.done =>
        grad.applied.num * (replicas * Elements) = TotalLoss * grad.applied.den

\* C10 amended: the loss whose gradient is applied is the sum of all
\* elements over all replicas divided by R, which is n times the true mean
\* loss.
C10_AppliedIsSumOverReplicaCount ==
    grad.done =>
        /\ grad.applied.num * replicas = TotalLoss * grad.applied.den
        /\ grad.applied.num * (replicas * Elements)
               = Elements * TotalLoss * grad.applied.den

\* train_one_step has run on two replicas with two loss elements each, not
\* all zero.
C10_Witness ==
    /\ grad.done
    /\ replicas = 2
    /\ Elements = 2
    /\ TotalLoss > 0

----------------------------------------------------------------------------
(* C11                                                                     *)

\* What load_experiment is given cannot be used: the path is no file, or
\* the yaml at the path lacks name, summary.path or checkpoint.path.
InvalidDescriptor(path) ==
    \/ ~IsFile(path)
    \/ /\ Readable(path)
       /\ \/ ReadExperiment(path).name = Missing
          \/ ReadExperiment(path).summary.path = Missing
          \/ ReadExperiment(path).checkpoint.path = Missing

\* C11: when the path given to load_experiment is not an existing file or
\* its descriptor lacks name, summary.path or checkpoint.path, the process
\* ends there with a ValueError (or is killed) and has had no effect: the
\* checkpoint directory is not created, no file is written, and nothing of
\* the session (datasets, models, optimizers) is built.
C11_InvalidDescriptorFailsFirst ==
    [][(pc = "load_experiment" /\ InvalidDescriptor(located.path)) =>
          /\ pc' = "stopped"
          /\ obs'.error.type = "ValueError" \/ obs' = NoObs
          /\ dirExists' = dirExists
          /\ disk' = disk
          /\ context' = NoContext
          /\ loops' = loops]_vars

\* A process started on a yaml without checkpoint.path has failed and the
\* checkpoint directory does not exist.
C11_Witness ==
    /\ pc = "stopped"
    /\ launches = 1
    /\ argv = FreshPath
    /\ fresh.checkpoint.path = Missing
    /\ obs.error = ValueError(<<"checkpoint">>)
    /\ ~dirExists
    /\ disk = <<>>

----------------------------------------------------------------------------
(* C12                                                                     *)

\* A phase of the loop of this process has failed.
Failed == obs.error.type = "RuntimeError"

\* C12: a failure in train, validate or save ends the process where it
\* happens, with the files as they are; from then on that process takes no
\* step: no later phase, no later iteration, no file written. Only a new
\* process (launches grows) moves on.
C12_FailureHaltsTheLoop ==
    [][/\ (~Failed /\ Failed') =>
              /\ Phase(pc) # ""
              /\ obs'.error = RuntimeError(Phase(pc))
              /\ pc' = "stopped"
              /\ disk' = disk
              /\ loops' = loops
       /\ Failed =>
              /\ pc = "stopped"
              /\ context = NoContext
              /\ launches' = launches + 1]_vars

\* The process has failed in validate of its second iteration, after a
\* checkpoint was written in its first.
C12_Witness ==
    /\ obs.error = RuntimeError("validate")
    /\ pc = "stopped"
    /\ launches = 1
    /\ loops = 2
    /\ Descriptors # {}

----------------------------------------------------------------------------
(* C13                                                                     *)

\* The structure resolve_strings is to leave: that of source with, in each
\* string leaf, experiment_name for each piece that is the placeholder, and
\* under a key containing 'path' that text as a resolved path.
RECURSIVE Resolved(_, _, _)
Resolved(node, underPath, experiment_name) ==
    IF node.type = "str"
    THEN LET text == Concat([i \in DOMAIN node.str |->
                         IF node.str[i] = Placeholder
                         THEN experiment_name ELSE node.str[i]])
         IN  StrNode(IF underPath THEN ResolvePath(text) ELSE text)
    ELSE IF node.type = "int" THEN node
    ELSE [node EXCEPT !.items = [i \in DOMAIN node.items |->
             Resolved(node.items[i],
                      /\ node.type = "dict"
                      /\ node.items[i].type = "str"
                      /\ \E j \in 1..(Len(node.keys[i]) - 3) :
                            /\ node.keys[i][j] = "p"
                            /\ node.keys[i][j + 1] = "a"
                            /\ node.keys[i][j + 2] = "t"
                            /\ node.keys[i][j + 3] = "h",
                      experiment_name)]]

\* C13: after resolve_strings(data, X) every string leaf of data, at every
\* depth, is its text with X in the place of every occurrence of
\* '{experiment_name}' (resolved as a path under a key containing 'path');
\* the keys, the types and the lengths of all containers are those of
\* before, and every leaf that is no string is as before.
C13_EveryOccurrenceReplaced ==
    rs.done => rs.data = Resolved(rs.source, FALSE, rs.experiment_name)

\* resolve_strings has replaced a placeholder in a string nested two
\* containers deep, next to a leaf that is no string.
C13_Witness ==
    /\ rs.done
    /\ rs.experiment_name = ExperimentName
    /\ rs.source.type = "dict"
    /\ rs.source.items[1].type = "list"
    /\ Len(rs.source.items[1].items) = 2
    /\ rs.source.items[1].items[2].type = "list"
    /\ rs.source.items[1].items[2].items[1].type = "str"
    /\ rs.source.items[1].items[2].items[1].str = <<Placeholder, Placeholder>>
    /\ rs.data.items[1].items[2].items[1].str = <<"x", "x">>

----------------------------------------------------------------------------
(* C14                                                                     *)

\* The optimizers, and the validators, of the experiment whose cycle
\* divides step.
OptimizersDue(step) ==
    {i \in DOMAIN context.experiment.optimizers :
        step % context.experiment.optimizers[i].cycle = 0}
ValidatorsDue(step) ==
    {i \in DOMAIN context.experiment.validators :
        step % context.experiment.validators[i].cycle = 0}

\* C14: with s the global step at the start of a phase, train pulls one
\* batch and makes one optimizer update for each optimizer whose cycle
\* divides s (whatever the optimizers before it in the phase did), validate
\* pulls one batch for each validator whose cycle divides s (s here is the
\* step after training), and save writes generation s iff the checkpoint
\* cycle divides s.
C14_GatedOnStepAtPhaseStart ==
    [][LET s == global_step(context)
       IN  /\ (pc = "train" /\ pc' = "validate") =>
                 /\ context'.datasets["A"]
                        = context.datasets["A"] + Cardinality(OptimizersDue(s))
                 /\ context'.datasets["B"] = context.datasets["B"]
                 /\ Updates(context'.optimizers)
                        = Updates(context.optimizers)
                              + Cardinality(OptimizersDue(s))
           /\ (pc = "validate" /\ pc' = "save") =>
                 /\ context'.datasets["B"]
                        = context.datasets["B"] + Cardinality(ValidatorsDue(s))
                 /\ context'.datasets["A"] = context.datasets["A"]
                 /\ (s \in obs'.validated) <=> (ValidatorsDue(s) # {} \/ s \in obs.validated)
           /\ (pc = "save" /\ pc' # "stopped") =>
                 IF s % context.experiment.checkpoint_cycle = 0
                 THEN pc' = "save_weights" /\ local'.step = s
                 ELSE pc' = "train" /\ disk' = disk]_vars

\* After a train phase at step 1 the optimizer of cycle 1 has fired, the
\* global step is 2, and the optimizer of cycle 2 that comes after it has
\* not fired.
C14_Witness ==
    /\ pc = "validate"
    /\ Len(context.optimizers) = 2
    /\ context.experiment.optimizers[1].cycle = 1
    /\ context.experiment.optimizers[2].cycle = 2
    /\ context.experiment.optimizers[2].extension_model = D
    /\ context.optimizers[1].iterations[1] = 2
    /\ context.optimizers[2].iterations[1] = 1
    /\ global_step(context) = 2
    /\ context.datasets["A"] = 3

----------------------------------------------------------------------------
(* C15                                                                     *)

\* C15: no step of validate or of save changes what global_step returns:
\* the optimizers' counters and the base offset of the session are left as
\* they are, also by the step of save that stores the current step in
\* experiment['global_step'] and by the dump of the descriptor.
C15_ValidateAndSaveKeepStep ==
    [][(Phase(pc) \in {"validate", "save"} /\ pc' # "stopped") =>
          /\ global_step(context') = global_step(context)
          /\ context'.optimizers = context.optimizers
          /\ context'.global_step = context.global_step]_vars

\* A generation has been written by this process, the descriptor's
\* global_step field holds its step, and the base offset of the session is
\* still the one read at start-up.
C15_Witness ==
    /\ pc = "train"
    /\ obs.saved # {}
    /\ context.experiment.global_step = global_step(context)
    /\ context.experiment.global_step > context.global_step
    /\ DescriptorName(global_step(context)) \in Dumped

----------------------------------------------------------------------------
(* C16                                                                     *)

\* The gated firings bound to dataset that the step from this state makes:
\* those of the train phase, those of the validate phase, none elsewhere.
FiringsOfStep(dataset) ==
    LET s == global_step(context)
    IN  IF pc = "train"
        THEN Cardinality({i \in OptimizersDue(s) :
                 context.experiment.optimizers[i].dataset = dataset})
        ELSE IF pc = "validate"
        THEN Cardinality({i \in ValidatorsDue(s) :
                 context.experiment.validators[i].dataset = dataset})
        ELSE 0

\* C16: from the moment the datasets of a session are built, every step of
\* the session advances each dataset by exactly the number of gated
\* optimizer and validator firings bound to it that the step makes; so the
\* batches pulled from a dataset are as many as the gated firings bound to
\* it, start-up included.
C16_PullsAreGatedFirings ==
    [][("datasets" \in context.keys /\ pc' # "stopped") =>
          \A d \in Datasets :
              context'.datasets[d] = context.datasets[d] + FiringsOfStep(d)]_vars

----------------------------------------------------------------------------
(* C17                                                                     *)

\* C17: build_models called on a context without datasets raises a
\* ValueError and leaves the context as it was given: no models, no
\* optimizers, no adapters in it, no optimizer update made and no batch
\* pulled.
C17_NoDatasetsNoModels ==
    (bm.done /\ "datasets" \notin bm.given.keys) =>
        /\ bm.error.type = "ValueError"
        /\ bm.context = bm.given
        /\ bm.context.keys \cap {"models", "optimizers"} = {}
        /\ bm.context.optimizers = <<>>
        /\ \A m \in Models : bm.context.principals[m] = 0

\* build_models has been called on the context of load_experiment, for an
\* experiment with two optimizers, and has raised.
C17_Witness ==
    /\ bm.done
    /\ bm.given.keys = {"experiment", "strategy", "global_step"}
    /\ Len(bm.given.experiment.optimizers) = 2
    /\ bm.error = ValueError(NoPath)

----------------------------------------------------------------------------
(* C18                                                                     *)

\* C18: whenever the loop is about to train, the cycle of some optimizer
\* divides the global step, so the train phase moves the global step on:
\* there is no state from which the step stays as it is for ever.
C18_TrainAlwaysMovesStep ==
    (pc = "train" /\ context.optimizers # <<>>) =>
        OptimizersDue(global_step(context)) # {}

----------------------------------------------------------------------------
(* C19                                                                     *)

\* C19: in no step of a session does the global step decrease, and a train
\* phase (the only phase of a loop iteration that moves it) adds at most 1
\* to every optimizer's counter and so at most 1 to the global step.
C19_StepGrowsByAtMostOne ==
    [][(pc \notin {"stopped", "load_experiment", "build_datasets",
                   "build_models"} /\ pc' # "stopped") =>
          /\ global_step(context') >= global_step(context)
          /\ global_step(context') <= global_step(context) + 1
          /\ \A i \in DOMAIN context.optimizers :
                \A r \in 1..replicas :
                    /\ context'.optimizers[i].iterations[r]
                           >= context.optimizers[i].iterations[r]
                    /\ context'.optimizers[i].iterations[r]
                           <= context.optimizers[i].iterations[r] + 1]_vars

----------------------------------------------------------------------------
(* C20                                                                     *)

\* C20 as stated: whenever, after start-up, the global step moves beyond a
\* value m that the checkpoint cycle divides, the generation numbered m
\* has been written.
C20_NoCheckpointStepSkipped ==
    [][(/\ Phase(pc) # ""
        /\ pc' # "stopped"
        /\ global_step(context') > global_step(context)
        /\ global_step(context) % context.experiment.checkpoint_cycle = 0) =>
          /\ DescriptorName(global_step(context)) \in Dumped
          /\ CompleteGeneration(DescriptorName(global_step(context)))]_vars

\* C20, amended: for every value m the global step has at the end of a
\* loop iteration (the value a train phase left and save ran with), if the
\* checkpoint cycle divides m then this process ran save with step m and
\* the generation numbered m is written, complete, before the next train
\* phase can move the step beyond m. The value the step has when the loop
\* starts is not covered: train runs before save ever sees it.
C20_StepAfterTrainIsSaved ==
    (/\ pc = "train"
     /\ obs.loops >= 1
     /\ global_step(context) % context.experiment.checkpoint_cycle = 0) =>
        /\ global_step(context) \in obs.saved
        /\ DescriptorName(global_step(context)) \in Dumped
        /\ CompleteGeneration(DescriptorName(global_step(context)))

\* With checkpoint cycle 1 the loop is about to train a second time, at
\* step 2: generation 2 is written; generation 1, for the step the loop
\* started with, is not.
C20_Witness ==
    /\ pc = "train"
    /\ launches = 1
    /\ obs.loops = 1
    /\ context.experiment.checkpoint_cycle = 1
    /\ global_step(context) = 2
    /\ obs.saved = {2}
    /\ DescriptorName(2) \in Dumped
    /\ CompleteGeneration(DescriptorName(2))
    /\ DescriptorName(1) \notin Descriptors

----------------------------------------------------------------------------
(* C21                                                                     *)

\* The number the first k characters of s, decimal digits, stand for.
RECURSIVE Number(_, _)
Number(s, k) ==
    IF k = 0 THEN 0
    ELSE 10 * Number(s, k - 1) + (Ord(s[k]) - Ord("0"))

\* The step in the name of a file that save wrote.
NameStep(n) == Number(n, Width)

\* The name of the descriptor at path.
DescriptorAt(path) == CHOOSE n \in Descriptors : path = Join(CkptDir, n)

\* find_latest_checkpoint finds a descriptor in the checkpoint directory,
\* and the step of the one it returns.
HasLatest == IsDir(CkptDir) /\ Descriptors # {}
LatestStep == NameStep(DescriptorAt(find_latest_checkpoint(CkptDir).path))

\* The running process has resumed from a descriptor of the directory.
Resumed == pc # "stopped" /\ argv = CkptDir /\ located.error = NoError

\* The steps in the names of the descriptors of the directory.
DescriptorSteps == {NameStep(n) : n \in Descriptors}

\* C21: through iterations, checkpoint writes, failures, kills and
\* restarts, no step of any process removes the directory or a descriptor
\* from it, and to every process started on the directory
\* find_latest_checkpoint returns the descriptor of the greatest step
\* there; so the step of the descriptor it returns never decreases. And
\* every file a resumed session writes belongs to a generation whose step
\* is greater than the step of the descriptor the session resumed from,
\* which is the base offset of the session.
C21_LatestStepNeverDecreases ==
    [][/\ dirExists => dirExists'
       /\ disk' # disk => Descriptors \subseteq Descriptors'
       /\ (pc = "stopped" /\ launches' = launches + 1 /\ argv' = CkptDir
              /\ HasLatest) =>
             /\ located'.error = NoError
             /\ NameStep(DescriptorAt(located'.path))
                    = Greatest(DescriptorSteps)
       /\ (Resumed /\ context.optimizers # <<>> /\ disk' # disk) =>
             /\ context.global_step = NameStep(DescriptorAt(located.path))
             /\ local.step > context.global_step
             /\ \A n \in DOMAIN disk' :
                   WritesFile(n) => NameStep(n) = local.step]_vars

\* A first process wrote generation 2 and ended; the process that resumed
\* from it has written generation 4, which find_latest_checkpoint now
\* returns.
C21_Witness ==
    /\ launches = 2
    /\ Resumed
    /\ pc = "train"
    /\ NameStep(DescriptorAt(located.path)) = 2
    /\ obs.saved = {4}
    /\ DescriptorName(4) \in Dumped
    /\ HasLatest
    /\ LatestStep = 4

====
